---- MODULE Spec2Model ----
(***************************************************************************)
(* Crop-data-analyzer: the batch report ("crop project.py", kept as        *)
(* src/unnamed/part_000) and the Streamlit dashboard (src/dashboard.py).   *)
(* Both read crop_yield.csv into a pandas DataFrame, clean it, aggregate   *)
(* it and print or render the results.                                     *)
(*                                                                         *)
(* A table is a sequence of rows, a row a function from column names to    *)
(* cells.  Numeric cells are non-negative integers or NaN.  The cells of   *)
(* the two year columns count HALVES (2 is the year 1.0, 3 is 1.5), so     *)
(* that astype(int) truncates something.  Labels are strings; the model    *)
(* keeps every label cell present.                                         *)
(***************************************************************************)
EXTENDS Integers, Sequences, FiniteSets, TLC

VARIABLES
    csv,           \* crop_yield.csv: the rows read_csv returns
    csvcols,       \* crop_yield.csv: its header
    surface,       \* "batch" (part_000) or "dashboard" (dashboard.py)
    pc,            \* position in the script
    err,           \* the exception that ended the run, or "none"
    df,            \* the module-level DataFrame df
    cols,          \* df.columns
    categories,    \* batch: the categories of the category-typed columns
    outliers,      \* batch: len(outliers), part_000 line 57
    sel,           \* dashboard: the sidebar widgets' values
    filtered_df,   \* dashboard: filtered_df
    charts,        \* what the five charts computed or displayed
    insights       \* what the key-insights section computed or displayed

vars == <<csv, csvcols, surface, pc, err, df, cols, categories, outliers,
          sel, filtered_df, charts, insights>>

(***************************************************************************)
(* Cells                                                                   *)
(***************************************************************************)
NaN == -1

Present(v) == v # NaN

\* pandas comparisons: any comparison with NaN is False
Gt(a, b) == Present(a) /\ Present(b) /\ a > b
Lt(a, b) == Present(a) /\ Present(b) /\ a < b
Ge(a, b) == Present(a) /\ Present(b) /\ a >= b
Le(a, b) == Present(a) /\ Present(b) /\ a <= b
EqNum(a, b) == Present(a) /\ Present(b) /\ a = b

\* a whole year n as a year cell (halves)
YearCell(n) == 2 * n

\* int(x), and astype(int) on one present cell: truncation
Trunc(v) == 2 * (v \div 2)

AllColumns == {"Crop_Year", "Year", "State", "Crop", "Season", "Area",
               "Production", "Yield", "Annual_Rainfall"}

categorical_cols == {"State", "Crop", "Season"}

(***************************************************************************)
(* Tables                                                                  *)
(***************************************************************************)
Range(s) == {s[i] : i \in DOMAIN s}

Column(t, c) == [i \in DOMAIN t |-> t[i][c]]

\* series.astype(int) raises on a missing value (IntCastingNaNError)
AsTypeIntRaises(t, c) == \E i \in DOMAIN t : ~Present(t[i][c])

(***************************************************************************)
(* Cleaning                                                                *)
(***************************************************************************)
\* (df['Area'] > 0) & (df['Production'] == 0)
IsOutlierAnyArea(r) == Ge(r["Area"], 0) /\ EqNum(r["Production"], 0)

IsOutlier(r) == Gt(r["Area"], 0) /\ EqNum(r["Production"], 0)

\* df = df[~((df['Area'] > 0) & (df['Production'] == 0))], guarded by the
\* presence of both columns
RemoveOutliers(t, cs) ==
    IF "Area" \in cs /\ "Production" \in cs
    THEN SelectSeq(t, LAMBDA r : ~IsOutlier(r))
    ELSE t

CountOutliers(t, cs) ==
    IF "Area" \in cs /\ "Production" \in cs
    THEN Len(SelectSeq(t, IsOutlier))
    ELSE 0

\* part_000 lines 40-43: the year source column of the batch script
BatchYearSource(cs) ==
    IF "Crop_Year" \in cs THEN "Crop_Year"
    ELSE IF "Year" \in cs THEN "Year"
    ELSE "none"

\* dashboard.py lines 19-20: load_data looks at Crop_Year only
DashYearSource(cs) ==
    IF "Crop_Year" \in cs THEN "Crop_Year" ELSE "none"

YearSource(sf, cs) ==
    IF sf = "batch" THEN BatchYearSource(cs) ELSE DashYearSource(cs)

\* df['Year'] = df[src].astype(int): the column Year is added or replaced
ConvertYearIdentity(t, src) ==
    [i \in DOMAIN t |->
        [k \in (DOMAIN t[i]) \cup {"Year"} |->
            IF k = "Year" THEN t[i][src] ELSE t[i][k]]]

ConvertYear(t, src) ==
    [i \in DOMAIN t |->
        [k \in (DOMAIN t[i]) \cup {"Year"} |->
            IF k = "Year" THEN Trunc(t[i][src]) ELSE t[i][k]]]

\* the whole cleaning step of either script, when it does not raise
CleanTable(sf, t, cs) ==
    LET src == YearSource(sf, cs)
        t1  == IF src = "none" THEN t ELSE ConvertYear(t, src)
    IN RemoveOutliers(t1, cs)

CleanColumns(sf, cs) ==
    IF YearSource(sf, cs) = "none" THEN cs ELSE cs \cup {"Year"}

CleanRaises(sf, t, cs) ==
    /\ YearSource(sf, cs) # "none"
    /\ AsTypeIntRaises(t, YearSource(sf, cs))

\* df[col].astype('category'): the categories are the labels observed at
\* the time of the conversion
CategoriesOf(t, cs) ==
    [c \in categorical_cols \cap cs |-> Range(Column(t, c))]

(***************************************************************************)
(* Aggregation                                                             *)
(***************************************************************************)
\* every label of the model, in ascending lexical order ('Rabi' < 'Rice')
LabelsSorted == <<"A", "B", "C", "Kharif", "Rabi", "Rice", "Wheat">>

LabelIndex(l) == CHOOSE i \in DOMAIN LabelsSorted : LabelsSorted[i] = l

LexLt(a, b) == LabelIndex(a) < LabelIndex(b)

\* sorted(S): the labels of S in ascending order
SortedLabels(S) ==
    CHOOSE q \in [1..Cardinality(S) -> S] :
        \A i, j \in 1..Cardinality(S) : i < j => LexLt(q[i], q[j])

\* the sum of the present cells of column c (skipna=True; 0 when none)
RECURSIVE NanSum(_, _)
NanSum(t, c) ==
    IF t = << >> THEN 0
    ELSE (IF Present(Head(t)[c]) THEN Head(t)[c] ELSE 0) + NanSum(Tail(t), c)

\* the number of present cells of column c
NanCount(t, c) == Len(SelectSeq(t, LAMBDA r : Present(r[c])))

\* An aggregate value is the quotient s / n; n = 0 is NaN.
IsNaNVal(v) == v.n = 0

ValLt(a, b) == a.s * b.n < b.s * a.n

ValEq(a, b) == a.s * b.n = b.s * a.n

\* Series.mean() of a group: NaN when no cell is present
Mean(g, c) == [s |-> NanSum(g, c), n |-> NanCount(g, c)]

\* Series.sum() of a group: min_count=0, so 0 when no cell is present
Sum(g, c) == [s |-> NanSum(g, c), n |-> 1]

\* the group keys of groupby(dim): the labels that occur in the rows
\* (observed=True on a category column; every label on a plain column),
\* in ascending order (sort=True)
GroupKeysAllCategories(t, dim, cats) == SortedLabels(cats)

GroupKeys(t, dim, cats) == SortedLabels(Range(Column(t, dim)))

Group(t, dim, k) == SelectSeq(t, LAMBDA r : r[dim] = k)

\* df.groupby(dim)[metric].mean() and .sum(): a Series, one entry per key
GroupByMean(t, dim, metric, cats) ==
    LET ks == GroupKeys(t, dim, cats)
    IN [i \in DOMAIN ks |->
           [key |-> ks[i], val |-> Mean(Group(t, dim, ks[i]), metric)]]

GroupBySum(t, dim, metric, cats) ==
    LET ks == GroupKeys(t, dim, cats)
    IN [i \in DOMAIN ks |->
           [key |-> ks[i], val |-> Sum(Group(t, dim, ks[i]), metric)]]

(***************************************************************************)
(* Ranking and best-X                                                      *)
(***************************************************************************)
IndexPermutations(n) ==
    {q \in [1..n -> 1..n] : \A i, j \in 1..n : i # j => q[i] # q[j]}

\* sort_values(ascending=False): the entries with a value first, largest
\* first, then the NaN entries in index order (na_position='last').  The
\* default kind='quicksort' is not stable: entries of equal value come out
\* in an order the numpy build decides.
DescendingOrder(agg, q) ==
    \A i, j \in DOMAIN agg :
        i < j =>
            IF IsNaNVal(agg[q[i]].val)
            THEN IsNaNVal(agg[q[j]].val) /\ q[i] < q[j]
            ELSE IsNaNVal(agg[q[j]].val)
                 \/ ~ValLt(agg[q[i]].val, agg[q[j]].val)

AscendingOrder(agg, q) ==
    \A i, j \in DOMAIN agg :
        i < j =>
            IF IsNaNVal(agg[q[i]].val)
            THEN IsNaNVal(agg[q[j]].val) /\ q[i] < q[j]
            ELSE IsNaNVal(agg[q[j]].val)
                 \/ ~ValLt(agg[q[j]].val, agg[q[i]].val)

SortValuesAscending(agg) ==
    {[i \in DOMAIN agg |-> agg[q[i]]] :
        q \in {p \in IndexPermutations(Len(agg)) : AscendingOrder(agg, p)}}

SortValuesDescending(agg) ==
    {[i \in DOMAIN agg |-> agg[q[i]]] :
        q \in {p \in IndexPermutations(Len(agg)) : DescendingOrder(agg, p)}}

\* .head(10)
TopN == 10

Head10(ranked) == SubSeq(ranked, 1, IF Len(ranked) < TopN THEN Len(ranked) ELSE TopN)

\* Series.max(): the largest present value, NaN when there is none
SeriesMax(agg) ==
    IF \A i \in DOMAIN agg : IsNaNVal(agg[i].val)
    THEN [s |-> 0, n |-> 0]
    ELSE LET i == CHOOSE m \in DOMAIN agg :
                      /\ ~IsNaNVal(agg[m].val)
                      /\ \A k \in DOMAIN agg :
                             IsNaNVal(agg[k].val)
                             \/ ~ValLt(agg[m].val, agg[k].val)
         IN agg[i].val

\* Series.idxmax(): the set of outcomes.  An empty Series raises
\* ValueError.  A Series of NaN only returns NaN (pandas 1.x and 2.x, the
\* latter with a FutureWarning) or raises ValueError (pandas 3); nothing in
\* the repository pins the version.  Otherwise the first key, in index
\* order, that holds the largest present value.
Raised == [raises |-> TRUE, key |-> "ValueError"]

Returned(k) == [raises |-> FALSE, key |-> k]

IsFirstMax(agg, m) ==
    /\ ~IsNaNVal(agg[m].val)
    /\ \A k \in DOMAIN agg :
           \/ IsNaNVal(agg[k].val)
           \/ ValLt(agg[k].val, agg[m].val)
           \/ (ValEq(agg[k].val, agg[m].val) /\ m <= k)

IdxMaxLast(agg) ==
    IF agg = << >> THEN {Raised}
    ELSE IF \A i \in DOMAIN agg : IsNaNVal(agg[i].val)
    THEN {Raised, Returned("nan")}
    ELSE {Returned(agg[Len(agg)].key)}

IdxMax(agg) ==
    IF agg = << >> THEN {Raised}
    ELSE IF \A i \in DOMAIN agg : IsNaNVal(agg[i].val)
    THEN {Raised, Returned("nan")}
    ELSE {Returned(agg[m].key) : m \in {k \in DOMAIN agg : IsFirstMax(agg, k)}}

(***************************************************************************)
(* Correlation and the rainfall insight                                    *)
(***************************************************************************)
\* A correlation coefficient is cov / sqrt(vv); vv = 0 is NaN (0 / 0).
CorrNaN == [cov |-> 0, vv |-> 0]

IsNaNCorr(c) == c.vv = 0

RECURSIVE SumProd(_, _, _)
SumProd(t, x, y) ==
    IF t = << >> THEN 0
    ELSE Head(t)[x] * Head(t)[y] + SumProd(Tail(t), x, y)

\* Series.corr(other): Pearson over the rows where both cells are present
\* (min_periods = 1), np.corrcoef on those: covariance over the product of
\* the standard deviations, NaN when that product is 0.  Sums are scaled
\* by n^2, which the quotient cancels.  The arithmetic is exact, as it is
\* in float64 on the integer cells of the model; the rounding of a mean
\* whose sum is inexact is not modelled.
CorrZeroWhenUndefined(t, x, y) ==
    LET pairs == SelectSeq(t, LAMBDA r : Present(r[x]) /\ Present(r[y]))
        n     == Len(pairs)
        cov   == n * SumProd(pairs, x, y) - NanSum(pairs, x) * NanSum(pairs, y)
        vx    == n * SumProd(pairs, x, x) - NanSum(pairs, x) * NanSum(pairs, x)
        vy    == n * SumProd(pairs, y, y) - NanSum(pairs, y) * NanSum(pairs, y)
    IN IF vx * vy = 0 THEN [cov |-> 0, vv |-> 1]
       ELSE [cov |-> cov, vv |-> vx * vy]

Corr(t, x, y) ==
    LET pairs == SelectSeq(t, LAMBDA r : Present(r[x]) /\ Present(r[y]))
        n     == Len(pairs)
        cov   == n * SumProd(pairs, x, y) - NanSum(pairs, x) * NanSum(pairs, y)
        vx    == n * SumProd(pairs, x, x) - NanSum(pairs, x) * NanSum(pairs, x)
        vy    == n * SumProd(pairs, y, y) - NanSum(pairs, y) * NanSum(pairs, y)
    IN IF n < 1 THEN CorrNaN
       ELSE IF vx * vy = 0 THEN CorrNaN
       ELSE [cov |-> cov, vv |-> vx * vy]

\* f"{correlation:.3f}"
Format3f(c) == IF IsNaNCorr(c) THEN "nan" ELSE "number"

\* c > 0.3 and c < -0.3, on c = cov / sqrt(vv); False for NaN
GtPoint3(c) == ~IsNaNCorr(c) /\ c.cov > 0 /\ 100 * c.cov * c.cov > 9 * c.vv

LtMinusPoint3(c) ==
    ~IsNaNCorr(c) /\ c.cov < 0 /\ 100 * c.cov * c.cov > 9 * c.vv

GePoint3(c) == ~IsNaNCorr(c) /\ c.cov > 0 /\ 100 * c.cov * c.cov >= 9 * c.vv

\* the if / elif / else of the rainfall insight
RainfallImpactInclusive(c) ==
    IF GePoint3(c) THEN "positive-impact"
    ELSE IF LtMinusPoint3(c) THEN "negative-impact"
    ELSE "minimal-impact"

RainfallImpact(c) ==
    IF GtPoint3(c) THEN "positive-impact"
    ELSE IF LtMinusPoint3(c) THEN "negative-impact"
    ELSE "minimal-impact"

(***************************************************************************)
(* Dashboard: sidebar and filters                                          *)
(***************************************************************************)
\* the columns the sidebar reads with df[...]
SidebarColumns == {"State", "Crop", "Season", "Year"}

\* Series.min() and Series.max() of Year: NaN when no cell is present
YearMin(d) ==
    LET ys == {y \in Range(Column(d, "Year")) : Present(y)}
    IN IF ys = {} THEN NaN ELSE CHOOSE m \in ys : \A y \in ys : m <= y

YearMax(d) ==
    LET ys == {y \in Range(Column(d, "Year")) : Present(y)}
    IN IF ys = {} THEN NaN ELSE CHOOSE m \in ys : \A y \in ys : m >= y

\* df['State'] on a missing column raises KeyError; int(NaN) raises
\* ValueError; "none" when the sidebar is built
SidebarError(d, cs) ==
    IF ~(SidebarColumns \subseteq cs) THEN "KeyError"
    ELSE IF ~Present(YearMin(d)) THEN "ValueError"
    ELSE "none"

\* what the three selectboxes and the year slider can return
Selections(d) ==
    LET years == {y \in Trunc(YearMin(d))..Trunc(YearMax(d)) : y = Trunc(y)}
    IN {s \in [state : {"All States"} \cup Range(Column(d, "State")),
               crop : {"All Crops"} \cup Range(Column(d, "Crop")),
               season : {"All Seasons"} \cup Range(Column(d, "Season")),
               lo : years, hi : years] : s.lo <= s.hi}

NoSelection ==
    [state |-> "All States", crop |-> "All Crops", season |-> "All Seasons",
     lo |-> NaN, hi |-> NaN]

\* the year mask of line 62
YearMaskExclusive(r, s) == Ge(r["Year"], s.lo) /\ Lt(r["Year"], s.hi)

YearMask(r, s) == Ge(r["Year"], s.lo) /\ Le(r["Year"], s.hi)

\* lines 51-62: filtered_df, built from a copy of df
ApplyFilters(d, s) ==
    LET f0 == d
        f1 == IF s.state # "All States"
              THEN SelectSeq(f0, LAMBDA r : r["State"] = s.state) ELSE f0
        f2 == IF s.crop # "All Crops"
              THEN SelectSeq(f1, LAMBDA r : r["Crop"] = s.crop) ELSE f1
        f3 == IF s.season # "All Seasons"
              THEN SelectSeq(f2, LAMBDA r : r["Season"] = s.season) ELSE f2
    IN SelectSeq(f3, LAMBDA r : YearMask(r, s))

\* df after lines 51-62: filtered_df = df.copy() and every later step
\* rebinds filtered_df only, so df is the table it was
DfAfterFiltersInPlace(d, s) == ApplyFilters(d, s)

DfAfterFilters(d, s) == d

(***************************************************************************)
(* Inputs: the contents of crop_yield.csv                                  *)
(***************************************************************************)
MaxFilterRows == 3
MaxCleanRows == 2
MaxYearRows == 2
MaxStateRows == 3
MaxSeasonRows == 2
MaxCropRows == 3
MaxCorrRows == 3

\* the header of the published dataset: Crop_Year, no Year
DatasetColumns == AllColumns \ {"Year"}

Row(s, c, se, cy, y, a, p, yd, rf) ==
    [State |-> s, Crop |-> c, Season |-> se, Crop_Year |-> cy, Year |-> y,
     Area |-> a, Production |-> p, Yield |-> yd, Annual_Rainfall |-> rf]

Tables(rows, n) == UNION {[1..k -> rows] : k \in 0..n}

\* the table as read under header h
ReadCsv(t, h) == [i \in DOMAIN t |-> [k \in h |-> t[i][k]]]

Files(rows, n, headers) ==
    {[rows |-> ReadCsv(t, h), header |-> h] : t \in Tables(rows, n), h \in headers}

\* rows that differ in their labels and years
FilterRows ==
    {Row(r[1], r[2], r[3], YearCell(r[4]), YearCell(r[4]), 1, 1, 1, 1) :
        r \in {<<"A", "Rice", "Kharif", 1>>, <<"B", "Rice", "Kharif", 1>>,
               <<"A", "Rice", "Rabi", 1>>, <<"A", "Rice", "Kharif", 2>>,
               <<"B", "Wheat", "Rabi", 2>>}}

\* rows that differ in Area and Production
CleanRows ==
    {Row("A", "Rice", "Kharif", YearCell(1), YearCell(1), a, p, 1, 1) :
        a \in {NaN, 0, 1}, p \in {NaN, 0, 1}}

CleanHeaders ==
    {DatasetColumns, DatasetColumns \ {"Area"}, DatasetColumns \ {"Production"}}

\* rows that differ in their year cells, whole, fractional and missing
YearRows ==
    {Row("A", "Rice", "Kharif", cy, y, 1, 1, 1, 1) :
        cy \in {NaN, YearCell(1), YearCell(1) + 1},
        y \in {YearCell(1) + 1, YearCell(2), YearCell(2) + 1}}

YearHeaders ==
    {AllColumns, AllColumns \ {"Year"}, AllColumns \ {"Crop_Year"},
     AllColumns \ {"Crop_Year", "Year"}}

\* rows that differ in State and Yield
StateYieldRows ==
    {Row(s, "Rice", "Kharif", YearCell(1), YearCell(1), 1, 1, yd, 1) :
        s \in {"A", "B"}, yd \in {NaN, 1, 2}}

\* rows that differ in Season and Production, some of them outliers
SeasonProductionRows ==
    {Row("A", "Rice", se, YearCell(1), YearCell(1), 1, p, 1, 1) :
        se \in {"Kharif", "Rabi"}, p \in {NaN, 0, 1, 2}}

\* rows that differ in Crop and Yield
CropYieldRows ==
    {Row("A", c, "Kharif", YearCell(1), YearCell(1), 1, 1, yd, 1) :
        c \in {"Rice", "Wheat"}, yd \in {NaN, 1, 2}}

\* rows that differ in Annual_Rainfall and Yield
RainfallYieldRows ==
    {Row("A", "Rice", "Kharif", YearCell(1), YearCell(1), 1, 1, r[2], r[1]) :
        r \in {<<NaN, 1>>, <<1, NaN>>, <<0, 0>>, <<0, 1>>, <<1, 0>>,
               <<1, 1>>, <<2, 0>>}}

CsvFiles ==
    Files(FilterRows, MaxFilterRows, {DatasetColumns})
    \cup Files(CleanRows, MaxCleanRows, CleanHeaders)
    \cup Files(YearRows, MaxYearRows, YearHeaders)
    \cup Files(StateYieldRows, MaxStateRows, {DatasetColumns})
    \cup Files(SeasonProductionRows, MaxSeasonRows, {DatasetColumns})
    \cup Files(CropYieldRows, MaxCropRows, {DatasetColumns})
    \cup Files(RainfallYieldRows, MaxCorrRows, {DatasetColumns})

(***************************************************************************)
(* The two scripts                                                         *)
(***************************************************************************)
NaNVal == [s |-> 0, n |-> 0]

NoCharts ==
    [view |-> [i \in 1..5 |-> "none"], top_states_yield |-> << >>,
     correlation |-> CorrNaN, corr_text |-> "none"]

NoInsights ==
    [view |-> "none", by_state |-> << >>, by_season |-> << >>,
     by_crop |-> << >>, best_state |-> "unset", best_yield |-> NaNVal,
     best_season |-> "unset", best_crop |-> "unset",
     rainfall_corr |-> CorrNaN, rainfall |-> "unset"]

NoCategories == [c \in categorical_cols |-> {}]

Init ==
    /\ \E f \in CsvFiles : csv = f.rows /\ csvcols = f.header
    /\ surface \in {"batch", "dashboard"}
    /\ pc = "start"
    /\ err = "none"
    /\ df = << >>
    /\ cols = {}
    /\ categories = NoCategories
    /\ outliers = 0
    /\ sel = NoSelection
    /\ filtered_df = << >>
    /\ charts = NoCharts
    /\ insights = NoInsights

\* part_000 line 16: df = pd.read_csv('crop_yield.csv')
BatchLoad ==
    /\ surface = "batch" /\ pc = "start"
    /\ df' = csv
    /\ cols' = csvcols
    /\ pc' = "loaded"
    /\ UNCHANGED <<csv, csvcols, surface, err, categories, outliers, sel,
                   filtered_df, charts, insights>>

\* part_000 lines 40-58: year conversion, category typing, outlier removal
BatchClean ==
    /\ surface = "batch" /\ pc = "loaded"
    /\ IF CleanRaises("batch", df, cols)
       THEN /\ pc' = "aborted_clean"
            /\ err' = "ValueError"
            /\ UNCHANGED <<df, cols, categories, outliers>>
       ELSE /\ pc' = "cleaned"
            /\ err' = "none"
            /\ df' = CleanTable("batch", df, cols)
            /\ cols' = CleanColumns("batch", cols)
            /\ categories' = [c \in categorical_cols |->
                                 IF c \in cols THEN CategoriesOf(df, cols)[c]
                                 ELSE {}]
            /\ outliers' = CountOutliers(df, cols)
    /\ UNCHANGED <<csv, csvcols, surface, sel, filtered_df, charts, insights>>

\* dashboard.py lines 14-28: df = load_data()
LoadData ==
    /\ surface = "dashboard" /\ pc = "start"
    /\ IF CleanRaises("dashboard", csv, csvcols)
       THEN /\ pc' = "aborted_clean"
            /\ err' = "ValueError"
            /\ UNCHANGED <<df, cols>>
       ELSE /\ pc' = "loaded"
            /\ err' = "none"
            /\ df' = CleanTable("dashboard", csv, csvcols)
            /\ cols' = CleanColumns("dashboard", csvcols)
    /\ UNCHANGED <<csv, csvcols, surface, categories, outliers, sel,
                   filtered_df, charts, insights>>

\* dashboard.py lines 30-62: the sidebar widgets return a selection and the
\* filters are applied to a copy of df
SidebarAndFilters ==
    /\ surface = "dashboard" /\ pc = "loaded"
    /\ IF SidebarError(df, cols) # "none"
       THEN /\ pc' = "aborted_sidebar"
            /\ err' = SidebarError(df, cols)
            /\ UNCHANGED <<df, sel, filtered_df>>
       ELSE \E s \in Selections(df) :
                /\ sel' = s
                /\ filtered_df' = ApplyFilters(df, s)
                /\ df' = DfAfterFilters(df, s)
                /\ pc' = "filtered"
                /\ err' = "none"
    /\ UNCHANGED <<csv, csvcols, surface, cols, categories, outliers, charts,
                   insights>>

\* what a dashboard chart shows: the chart, or the warning of its else branch
ChartAlways(f) == "chart"

ChartOrNoData(f) == IF Len(f) > 0 THEN "chart" ELSE "no_data"

\* dashboard.py lines 108-130: the if / elif / else of chart 2
Chart2View(f, s) ==
    IF Len(f) > 0 /\ s.state = "All States" THEN "chart"
    ELSE IF s.state # "All States" THEN "info"
    ELSE "no_data"

\* the columns the summary statistics read with filtered_df[...]
SummaryColumns == {"Yield", "Production", "Area"}

\* dashboard.py lines 64-212: the summary statistics, which raise KeyError
\* on a missing column, and the five charts
DashCharts ==
    /\ surface = "dashboard" /\ pc = "filtered"
    /\ IF ~(SummaryColumns \subseteq cols)
       THEN /\ pc' = "aborted_summary"
            /\ err' = "KeyError"
            /\ UNCHANGED charts
       ELSE /\ \E ranked \in SortValuesDescending(
                                 GroupByMean(filtered_df, "State", "Yield",
                                             categories["State"])) :
                   charts' =
                       [view |-> [i \in 1..5 |->
                                     IF i = 2 THEN Chart2View(filtered_df, sel)
                                     ELSE ChartOrNoData(filtered_df)],
                        top_states_yield |->
                            IF Chart2View(filtered_df, sel) = "chart"
                            THEN Head10(ranked) ELSE << >>,
                        correlation |->
                            IF Len(filtered_df) > 0
                            THEN Corr(filtered_df, "Annual_Rainfall", "Yield")
                            ELSE CorrNaN,
                        corr_text |->
                            IF Len(filtered_df) > 0
                            THEN Format3f(Corr(filtered_df, "Annual_Rainfall",
                                               "Yield"))
                            ELSE "none"]
            /\ pc' = "charted"
            /\ err' = "none"
    /\ UNCHANGED <<csv, csvcols, surface, df, cols, categories, outliers,
                   sel, filtered_df, insights>>

\* dashboard.py lines 216-247: the key-insights section.  An exception of
\* idxmax ends the script run where it is raised.
DashInsights ==
    /\ surface = "dashboard" /\ pc = "charted"
    /\ IF Len(filtered_df) > 0
       THEN LET byState  == GroupByMean(filtered_df, "State", "Yield",
                                        categories["State"])
                bySeason == GroupBySum(filtered_df, "Season", "Production",
                                       categories["Season"])
                byCrop   == GroupByMean(filtered_df, "Crop", "Yield",
                                        categories["Crop"])
                c        == Corr(filtered_df, "Annual_Rainfall", "Yield")
            IN \E o1 \in IdxMax(byState), o2 \in IdxMax(bySeason),
                  o3 \in IdxMax(byCrop) :
                   LET r1 == o1.raises
                       r2 == r1 \/ o2.raises
                       r3 == r2 \/ o3.raises
                   IN /\ insights' =
                             [view |-> IF r3 THEN "exception" ELSE "shown",
                              by_state |-> byState,
                              by_season |-> IF r1 THEN << >> ELSE bySeason,
                              by_crop |-> IF r2 THEN << >> ELSE byCrop,
                              best_state |-> IF r1 THEN "unset" ELSE o1.key,
                              best_yield |->
                                  IF r1 THEN NaNVal ELSE SeriesMax(byState),
                              best_season |-> IF r2 THEN "unset" ELSE o2.key,
                              best_crop |-> IF r3 THEN "unset" ELSE o3.key,
                              rainfall_corr |-> IF r3 THEN CorrNaN ELSE c,
                              rainfall |->
                                  IF r3 THEN "unset" ELSE RainfallImpact(c)]
                      /\ pc' = IF r3 THEN "aborted_insights" ELSE "done"
                      /\ err' = IF r3 THEN "ValueError" ELSE "none"
       ELSE /\ insights' = [NoInsights EXCEPT !.view = "no_data"]
            /\ pc' = "done"
            /\ err' = "none"
    /\ UNCHANGED <<csv, csvcols, surface, df, cols, categories, outliers, sel,
                   filtered_df, charts>>

\* a widget changes: Streamlit runs the script again; load_data is cached
\* (st.cache_data), so df is the table of the first run
Rerun ==
    /\ surface = "dashboard" /\ pc \in {"done", "aborted_insights"}
    /\ pc' = "loaded"
    /\ err' = "none"
    /\ sel' = NoSelection
    /\ filtered_df' = << >>
    /\ charts' = NoCharts
    /\ insights' = NoInsights
    /\ UNCHANGED <<csv, csvcols, surface, df, cols, categories, outliers>>

\* part_000 lines 68-175: the five charts, each behind its column guard
BatchChartView(cs, needed) == IF needed \subseteq cs THEN "chart" ELSE "skipped"

BatchCharts ==
    /\ surface = "batch" /\ pc = "cleaned"
    /\ \E ranked \in SortValuesDescending(
                         GroupByMean(df, "State", "Yield", categories["State"])) :
           charts' =
               [view |-> [i \in 1..5 |->
                             IF i = 1 THEN BatchChartView(cols, {"Year", "Yield"})
                             ELSE IF i = 2 THEN BatchChartView(cols, {"State", "Yield"})
                             ELSE IF i = 3 THEN BatchChartView(cols, {"Season", "Yield"})
                             ELSE IF i = 4
                             THEN BatchChartView(cols, {"Annual_Rainfall", "Yield"})
                             ELSE IF Cardinality(cols \ categorical_cols) > 1
                             THEN "chart" ELSE "skipped"],
                top_states_yield |->
                    IF {"State", "Yield"} \subseteq cols
                    THEN Head10(ranked) ELSE << >>,
                correlation |->
                    IF {"Annual_Rainfall", "Yield"} \subseteq cols
                    THEN Corr(df, "Annual_Rainfall", "Yield") ELSE CorrNaN,
                corr_text |->
                    IF {"Annual_Rainfall", "Yield"} \subseteq cols
                    THEN Format3f(Corr(df, "Annual_Rainfall", "Yield"))
                    ELSE "none"]
    /\ pc' = "charted"
    /\ UNCHANGED <<csv, csvcols, surface, err, df, cols, categories, outliers,
                   sel, filtered_df, insights>>

\* part_000 lines 197-215: the key insights, each behind its column guard
BatchInsights ==
    /\ surface = "batch" /\ pc = "charted"
    /\ LET byState  == GroupByMean(df, "State", "Yield", categories["State"])
           bySeason == GroupBySum(df, "Season", "Production",
                                  categories["Season"])
           c        == Corr(df, "Annual_Rainfall", "Yield")
           g1       == {"State", "Yield"} \subseteq cols
           g2       == {"Season", "Production"} \subseteq cols
           g3       == {"Annual_Rainfall", "Yield"} \subseteq cols
       IN \E o1 \in (IF g1 THEN IdxMax(byState) ELSE {Returned("unset")}),
             o2 \in (IF g2 THEN IdxMax(bySeason) ELSE {Returned("unset")}) :
              LET r1 == g1 /\ o1.raises
                  r2 == r1 \/ (g2 /\ o2.raises)
              IN /\ insights' =
                        [view |-> IF r2 THEN "exception" ELSE "shown",
                         by_state |-> IF g1 THEN byState ELSE << >>,
                         by_season |-> IF g2 /\ ~r1 THEN bySeason ELSE << >>,
                         by_crop |-> << >>,
                         best_state |-> IF g1 /\ ~r1 THEN o1.key ELSE "unset",
                         best_yield |->
                             IF g1 /\ ~r1 THEN SeriesMax(byState) ELSE NaNVal,
                         best_season |-> IF g2 /\ ~r2 THEN o2.key ELSE "unset",
                         best_crop |-> "unset",
                         rainfall_corr |-> IF g3 /\ ~r2 THEN c ELSE CorrNaN,
                         rainfall |->
                             IF g3 /\ ~r2 THEN RainfallImpact(c) ELSE "unset"]
                 /\ pc' = IF r2 THEN "aborted_insights" ELSE "done"
                 /\ err' = IF r2 THEN "ValueError" ELSE "none"
    /\ UNCHANGED <<csv, csvcols, surface, df, cols, categories, outliers, sel,
                   filtered_df, charts>>

Next ==
    \/ BatchLoad
    \/ BatchClean
    \/ BatchCharts
    \/ BatchInsights
    \/ LoadData
    \/ SidebarAndFilters
    \/ DashCharts
    \/ DashInsights
    \/ Rerun

Spec == Init /\ [][Next]_vars

(***************************************************************************)
(* The classifier on its own: coefficients k / d drawn directly            *)
(***************************************************************************)
MaxDen == 10

Coefficients ==
    {[cov |-> k, vv |-> d * d] :
        k \in -MaxDen..MaxDen, d \in 1..MaxDen} \cup {CorrNaN}

InitClassify ==
    /\ csv = << >> /\ csvcols = DatasetColumns
    /\ surface \in {"batch", "dashboard"}
    /\ pc = "classify"
    /\ err = "none"
    /\ df = << >>
    /\ cols = DatasetColumns
    /\ categories = NoCategories
    /\ outliers = 0
    /\ sel = NoSelection
    /\ filtered_df = << >>
    /\ charts = NoCharts
    /\ \E c \in {x \in Coefficients : x.cov * x.cov <= x.vv \/ x = CorrNaN} :
           insights = [NoInsights EXCEPT !.rainfall_corr = c]

\* part_000 lines 210-215, dashboard.py lines 240-245
Classify ==
    /\ pc = "classify"
    /\ insights' = [insights EXCEPT
                       !.rainfall = RainfallImpact(insights.rainfall_corr)]
    /\ pc' = "classified"
    /\ UNCHANGED <<csv, csvcols, surface, err, df, cols, categories, outliers,
                   sel, filtered_df, charts>>

SpecClassify == InitClassify /\ [][Classify]_vars

(***************************************************************************)
(* Properties                                                              *)
(***************************************************************************)
Count(t, x) == Cardinality({i \in DOMAIN t : t[i] = x})

\* the cleaning step has returned a table
Cleaned ==
    \/ surface = "batch"
       /\ pc \in {"cleaned", "charted", "done", "aborted_insights"}
    \/ surface = "dashboard"
       /\ pc \in {"loaded", "filtered", "charted", "done", "aborted_sidebar",
                  "aborted_summary", "aborted_insights"}

\* the rows of the file and of the cleaned table, without the column Year,
\* which the cleaning adds or rewrites
CsvRows == [i \in DOMAIN csv |-> [k \in csvcols \ {"Year"} |-> csv[i][k]]]

CleanedRows == [i \in DOMAIN df |-> [k \in csvcols \ {"Year"} |-> df[i][k]]]

\* C1: when the file has the columns Area and Production, the cleaned table
\* of either script holds no row with Area > 0 and Production = 0, and holds
\* every other row of the file as often as the file does.
C1_CleanRemovesExactlyOutliers ==
    (Cleaned /\ {"Area", "Production"} \subseteq csvcols) =>
        /\ \A i \in DOMAIN df :
               ~(df[i]["Area"] # NaN /\ df[i]["Area"] > 0
                 /\ df[i]["Production"] = 0)
        /\ Range(CleanedRows) \subseteq Range(CsvRows)
        /\ \A x \in Range(CsvRows) :
               Count(CleanedRows, x) =
                   IF x["Area"] # NaN /\ x["Area"] > 0 /\ x["Production"] = 0
                   THEN 0 ELSE Count(CsvRows, x)

C1_Witness ==
    /\ Cleaned
    /\ surface = "dashboard"
    /\ Len(csv) = 2 /\ Len(df) = 1
    /\ csv[1]["Area"] = 1 /\ csv[1]["Production"] = 0
    /\ df[1]["Area"] = 0 /\ df[1]["Production"] = 0

\* the dashboard has applied its filters
Filtered ==
    /\ surface = "dashboard"
    /\ pc \in {"filtered", "charted", "done", "aborted_summary",
               "aborted_insights"}

Matches(x, s) ==
    /\ s.state = "All States" \/ x["State"] = s.state
    /\ s.crop = "All Crops" \/ x["Crop"] = s.crop
    /\ s.season = "All Seasons" \/ x["Season"] = s.season
    /\ x["Year"] # NaN /\ s.lo <= x["Year"] /\ x["Year"] <= s.hi

\* C2: the filtered table holds exactly the rows of the cleaned table that
\* equal every selected label ('All <X>' matches every row) and whose Year
\* lies in [lo, hi], both ends included.
C2_FilterKeepsExactlyMatchingRows ==
    Filtered =>
        /\ Range(filtered_df) \subseteq Range(df)
        /\ \A x \in Range(df) :
               Count(filtered_df, x) =
                   IF Matches(x, sel) THEN Count(df, x) ELSE 0

C2_Witness ==
    /\ Filtered
    /\ sel.state = "A" /\ sel.lo < sel.hi
    /\ Len(df) = 3 /\ Len(filtered_df) = 2
    /\ \E i \in DOMAIN filtered_df : filtered_df[i]["Year"] = sel.hi
    /\ \E i \in DOMAIN filtered_df : filtered_df[i]["Year"] = sel.lo

\* the denominator d of a coefficient k / d
Den(c) == CHOOSE d \in 1..MaxDen : d * d = c.vv

\* C3: a coefficient c = k / d is positive-impact when c > 3/10,
\* negative-impact when c < -3/10 and minimal-impact otherwise; 3/10 and
\* -3/10 themselves are minimal-impact.
C3_ThreeBandsExclusiveBoundaries ==
    pc = "classified" =>
        LET c == insights.rainfall_corr
        IN insights.rainfall =
               IF IsNaNCorr(c) THEN "minimal-impact"
               ELSE IF 10 * c.cov > 3 * Den(c) THEN "positive-impact"
               ELSE IF 10 * c.cov < -3 * Den(c) THEN "negative-impact"
               ELSE "minimal-impact"

C3_Witness ==
    /\ pc = "classified"
    /\ insights.rainfall_corr = [cov |-> 3, vv |-> 100]
    /\ insights.rainfall = "minimal-impact"

\* the dashboard has rendered its charts for an empty filtered table, or
\* has stopped on the way
EmptyRequest ==
    /\ surface = "dashboard"
    /\ pc \in {"charted", "done", "aborted_summary", "aborted_insights"}
    /\ Len(filtered_df) = 0
    /\ SummaryColumns \subseteq cols

\* C4, as stated: for an empty filtered table the run does not abort and
\* every view, charts 1 to 5 and the key insights, shows the 'No data
\* available' notice, whichever state is selected.
C4_EveryViewShowsNoData ==
    EmptyRequest =>
        /\ pc \in {"charted", "done"} /\ err = "none"
        /\ \A i \in 1..5 : charts.view[i] = "no_data"
        /\ pc = "done" => insights.view = "no_data"

\* C4, amended: for an empty filtered table the run does not abort; charts
\* 1, 3, 4, 5 and the key insights show the notice; chart 2 shows it when
\* 'All States' is selected and the 'Select All States' hint otherwise.
C4_NoDataNoticeExceptChart2Hint ==
    EmptyRequest =>
        /\ pc \in {"charted", "done"} /\ err = "none"
        /\ \A i \in {1, 3, 4, 5} : charts.view[i] = "no_data"
        /\ charts.view[2] =
               IF sel.state = "All States" THEN "no_data" ELSE "info"
        /\ pc = "done" => insights.view = "no_data"

C4_Witness ==
    /\ EmptyRequest
    /\ pc = "done"
    /\ sel.state = "A" /\ sel.crop = "Wheat"
    /\ charts.view[2] = "info"
    /\ insights.view = "no_data"

\* C5: once load_data has returned, no dashboard step, over any number of
\* reruns, changes the cached table df.
C5_CachedTableNeverChanges ==
    [][(surface = "dashboard" /\ pc # "start") => df' = df]_vars

C5_Witness ==
    /\ surface = "dashboard"
    /\ pc = "done"
    /\ Len(df) = 3
    /\ Len(filtered_df) = 1
    /\ insights.view = "shown"

YearColumnsAbsent == "Crop_Year" \notin csvcols /\ "Year" \notin csvcols

\* the cleaning step has run, to its end or to an exception
CleanAttempted == pc # "start" /\ ~(surface = "batch" /\ pc = "loaded")

\* v is the whole year that src truncates to (year cells count halves)
IsTruncOf(v, src) == v % 2 = 0 /\ v <= src /\ src < v + 2

\* C6, as stated: without a Crop_Year and a Year column the cleaning fails;
\* with one of them, the cleaned Year column holds whole years.
C6_SchemaErrorOrIntegerYear ==
    CleanAttempted =>
        IF YearColumnsAbsent THEN pc = "aborted_clean"
        ELSE Cleaned =>
                 /\ "Year" \in cols
                 /\ \A i \in DOMAIN df : df[i]["Year"] % 2 = 0

\* C6, amended: without a Crop_Year and a Year column the cleaning does not
\* fail and adds no Year column (the dashboard then stops in its sidebar
\* with KeyError); with Crop_Year, Year is Crop_Year truncated to an
\* integer; with Year only, the batch script truncates Year to an integer
\* and the dashboard leaves it as read; the cleaning fails only when
\* astype(int) meets a missing value.
C6_YearTruncatedFromSource ==
    CleanAttempted =>
        /\ YearColumnsAbsent =>
               /\ pc # "aborted_clean"
               /\ "Year" \notin cols
               /\ (surface = "dashboard" /\ pc # "loaded") =>
                      (pc = "aborted_sidebar" /\ err = "KeyError")
        /\ (Cleaned /\ "Crop_Year" \in csvcols) =>
               /\ "Year" \in cols
               /\ \A i \in DOMAIN df :
                      IsTruncOf(df[i]["Year"], df[i]["Crop_Year"])
        /\ (Cleaned /\ "Crop_Year" \notin csvcols /\ "Year" \in csvcols
                /\ Len(df) = Len(csv)) =>
               \A i \in DOMAIN df :
                   IF surface = "batch"
                   THEN IsTruncOf(df[i]["Year"], csv[i]["Year"])
                   ELSE df[i]["Year"] = csv[i]["Year"]
        /\ pc = "aborted_clean" =>
               /\ err = "ValueError"
               /\ \E i \in DOMAIN csv :
                      csv[i][YearSource(surface, csvcols)] = NaN

C6_Witness ==
    /\ surface = "batch"
    /\ pc = "cleaned"
    /\ YearColumnsAbsent
    /\ Len(df) = 2
    /\ "Year" \notin cols

\* the table the charts and the insights are computed over
ViewTable == IF surface = "batch" THEN df ELSE filtered_df

\* the key-insights code has run, to its end or to an exception
InsightsRan ==
    /\ pc \in {"done", "aborted_insights"}
    /\ surface = "dashboard" => Len(filtered_df) > 0

StateQueryRan == InsightsRan /\ {"State", "Yield"} \subseteq cols

SeasonQueryRan ==
    /\ InsightsRan /\ {"Season", "Production"} \subseteq cols
    /\ insights.by_season # << >>

CropQueryRan == InsightsRan /\ insights.by_crop # << >>

NonMissing(t, c) == Cardinality({i \in DOMAIN t : t[i][c] # NaN})

\* key k holds a largest value of the aggregate
IsArgMax(agg, k) ==
    \E i \in DOMAIN agg :
        /\ agg[i].key = k /\ agg[i].val.n # 0
        /\ \A j \in DOMAIN agg :
               agg[j].val.n # 0 =>
                   agg[j].val.s * agg[i].val.n <= agg[i].val.s * agg[j].val.n

\* and no key before it in index order holds that value too
IsFirstArgMax(agg, k) ==
    /\ IsArgMax(agg, k)
    /\ \A j \in DOMAIN agg :
           (IsArgMax(agg, agg[j].key) /\ agg[j].key # k) => LexLt(k, agg[j].key)

\* C7, as stated: a best-X query returns a key with the largest aggregate
\* value, and when no row contributes a metric value the run fails instead
\* of returning anything.
C7_BestKeyOrFailure ==
    /\ StateQueryRan =>
           IF NonMissing(ViewTable, "Yield") = 0 THEN pc = "aborted_insights"
           ELSE IsArgMax(insights.by_state, insights.best_state)
    /\ SeasonQueryRan =>
           IF NonMissing(ViewTable, "Production") = 0
           THEN pc = "aborted_insights"
           ELSE IsArgMax(insights.by_season, insights.best_season)
    /\ CropQueryRan =>
           IF NonMissing(ViewTable, "Yield") = 0 THEN pc = "aborted_insights"
           ELSE IsArgMax(insights.by_crop, insights.best_crop)

\* C7, amended: a best-X query returns the first key, in ascending label
\* order, with the largest aggregate value.  Over a table without rows it
\* fails with ValueError.  Over a table with rows of which none has the
\* metric, best-by-sum-of-Production returns the first label (every sum is
\* 0) and best-by-mean-Yield returns NaN or fails with ValueError.
C7_FirstArgMaxOrPandasOutcome ==
    /\ StateQueryRan =>
           IF Len(ViewTable) = 0
           THEN pc = "aborted_insights" /\ err = "ValueError"
           ELSE IF NonMissing(ViewTable, "Yield") = 0
           THEN \/ pc = "aborted_insights" /\ err = "ValueError"
                \/ insights.best_state = "nan"
           ELSE IsFirstArgMax(insights.by_state, insights.best_state)
    /\ SeasonQueryRan =>
           /\ IsFirstArgMax(insights.by_season, insights.best_season)
           /\ NonMissing(ViewTable, "Production") = 0 =>
                  insights.best_season = insights.by_season[1].key
    /\ CropQueryRan =>
           IF NonMissing(ViewTable, "Yield") = 0
           THEN \/ pc = "aborted_insights" /\ err = "ValueError"
                \/ insights.best_crop = "nan"
           ELSE IsFirstArgMax(insights.by_crop, insights.best_crop)

C7_Witness ==
    /\ SeasonQueryRan
    /\ pc = "done"
    /\ NonMissing(ViewTable, "Production") = 0
    /\ Len(insights.by_season) = 2
    /\ insights.best_season = "Kharif"

\* the labels of column dim in table t, and the rows of one label
LabelsIn(t, dim) == {t[i][dim] : i \in DOMAIN t}

RowsOf(t, dim, k) == {i \in DOMAIN t : t[i][dim] = k}

RECURSIVE SumOver(_, _, _)
SumOver(t, c, I) ==
    IF I = {} THEN 0
    ELSE LET i == CHOOSE x \in I : TRUE
         IN (IF t[i][c] # NaN THEN t[i][c] ELSE 0) + SumOver(t, c, I \ {i})

PresentIn(t, c, I) == {i \in I : t[i][c] # NaN}

\* every entry of a mean aggregate is the mean of the present cells of its
\* group; of a sum aggregate, their sum
MeansOfPresent(agg, t, dim, c) ==
    \A i \in DOMAIN agg :
        LET I == PresentIn(t, c, RowsOf(t, dim, agg[i].key))
        IN agg[i].val = [s |-> SumOver(t, c, I), n |-> Cardinality(I)]

SumsOfPresent(agg, t, dim, c) ==
    \A i \in DOMAIN agg :
        LET I == PresentIn(t, c, RowsOf(t, dim, agg[i].key))
        IN agg[i].val = [s |-> SumOver(t, c, I), n |-> 1]

\* every key of the aggregate has a row with a metric value
KeysHaveValues(agg, t, dim, c) ==
    \A i \in DOMAIN agg : PresentIn(t, c, RowsOf(t, dim, agg[i].key)) # {}

\* the keys of the aggregate are the labels of the table, each once
KeysAreLabels(agg, t, dim) ==
    /\ {agg[i].key : i \in DOMAIN agg} = LabelsIn(t, dim)
    /\ Len(agg) = Cardinality(LabelsIn(t, dim))

\* C8, as stated: an aggregate is computed over the rows whose metric is
\* present, and a label none of whose rows has the metric is not a key.
C8_LabelsWithoutValuesOmitted ==
    /\ StateQueryRan =>
           /\ MeansOfPresent(insights.by_state, ViewTable, "State", "Yield")
           /\ KeysHaveValues(insights.by_state, ViewTable, "State", "Yield")
    /\ SeasonQueryRan =>
           /\ SumsOfPresent(insights.by_season, ViewTable, "Season",
                            "Production")
           /\ KeysHaveValues(insights.by_season, ViewTable, "Season",
                             "Production")
    /\ CropQueryRan =>
           /\ MeansOfPresent(insights.by_crop, ViewTable, "Crop", "Yield")
           /\ KeysHaveValues(insights.by_crop, ViewTable, "Crop", "Yield")

\* C8, amended: an aggregate is computed over the rows whose metric is
\* present, and its keys are the labels that have a row in the table; a
\* label none of whose rows has the metric is a key with the value NaN
\* (mean of Yield) or 0 (sum of Production).
C8_KeysAreLabelsWithRows ==
    /\ StateQueryRan =>
           /\ MeansOfPresent(insights.by_state, ViewTable, "State", "Yield")
           /\ KeysAreLabels(insights.by_state, ViewTable, "State")
    /\ SeasonQueryRan =>
           /\ SumsOfPresent(insights.by_season, ViewTable, "Season",
                            "Production")
           /\ KeysAreLabels(insights.by_season, ViewTable, "Season")
    /\ CropQueryRan =>
           /\ MeansOfPresent(insights.by_crop, ViewTable, "Crop", "Yield")
           /\ KeysAreLabels(insights.by_crop, ViewTable, "Crop")

C8_Witness ==
    /\ SeasonQueryRan
    /\ surface = "batch"
    /\ categories["Season"] = {"Kharif", "Rabi"}
    /\ Len(insights.by_season) = 1
    /\ insights.by_season[1] = [key |-> "Kharif", val |-> [s |-> 0, n |-> 1]]
    /\ NonMissing(ViewTable, "Production") = 0

\* chart 2 has been drawn
Chart2Ran ==
    /\ pc \in {"charted", "done", "aborted_insights"}
    /\ IF surface = "batch" THEN {"State", "Yield"} \subseteq cols
       ELSE charts.view[2] = "chart"

Chart4Ran == charts.corr_text # "none"

ZeroVariance(t, c) == Cardinality({t[i][c] : i \in DOMAIN t} \ {NaN}) <= 1

Undefined(t) ==
    \/ NonMissing(t, "Annual_Rainfall") < 2
    \/ NonMissing(t, "Yield") < 2
    \/ ZeroVariance(t, "Annual_Rainfall")
    \/ ZeroVariance(t, "Yield")

====
